---------------------------- MODULE Spec2Model ----------------------------
(***************************************************************************)
(* TurnBack benchmark: route data model (dataset.py), model stubs          *)
(* (models.py) and the evaluator (evaluation.py).                          *)
(*                                                                         *)
(* Conventions                                                             *)
(*  - Python floats that carry metric values are decimals with at most     *)
(*    three places; they are represented as integers in thousandths        *)
(*    (0.75 -> 750, 2.5 -> 2500).  Coordinates are integers in 1e-4 degree *)
(*    (40.7128 -> 407128).                                                 *)
(*  - Python None is the empty tuple <<>>; an optional value v is <<v>>.   *)
(*  - A dict is a function whose DOMAIN is its key set.                    *)
(*  - A method is an operator returning [self |-> receiver after the call, *)
(*    ret |-> returned value]; a raised exception is ret.raised.           *)
(***************************************************************************)
EXTENDS Integers, Sequences, FiniteSets, TLC

VARIABLES
    dataset,        \* the RouteDataset under test: [obj, routes]
    ret,            \* the last completed call: [op, ...] with its inputs and outcome
    pc,             \* position inside evaluate: idle, loop, bench, done, raised
    evaluator,      \* the RouteEvaluator: [config, metrics]
    model,          \* the model argument of the running evaluate() (<<>> when none)
    results,        \* evaluate's local `results`
    predictions,    \* evaluate's local `predictions`
    ground_truths,  \* evaluate's local `ground_truths`
    predictLog,     \* the route_data arguments model.predict received in this evaluate()
    benchmark,      \* the TurnBackBenchmark evaluate() was called through (<<>> when direct)
    resultObj,      \* identities of result dicts: [cur |-> of `results`, held |-> by the caller]
    cli             \* the command-line process: arguments, position, outputs, exit code

vars == <<dataset, ret, pc, evaluator, model, results,
          predictions, ground_truths, predictLog, benchmark, resultObj, cli>>

-----------------------------------------------------------------------------
(* Bounds of the model *)

\* longest dataset enumerated in Init
MaxLen == 2
\* most load_dataset() calls made in a row
MaxCalls == 2

-----------------------------------------------------------------------------
(* Generic helpers *)

None == <<>>

EmptyDict == [k \in {} |-> 0]

\* d[k] = v on a dict
Put(d, k, v) == [x \in DOMAIN d \cup {k} |-> IF x = k THEN v ELSE d[x]]

\* dict.get(k, default)
Get(d, k, default) == IF k \in DOMAIN d THEN d[k] ELSE default

Range(s) == {s[i] : i \in DOMAIN s}

\* the element of a one-element set; The({e(x) : x \in {v}}) is e with the local
\* variable x assigned v once
The(S) == CHOOSE v \in S : TRUE

\* list.count(x)
Count(s, x) == Cardinality({i \in DOMAIN s : s[i] = x})

RECURSIVE SumOver(_, _)
SumOver(f, S) ==
    IF S = {} THEN 0
    ELSE LET k == CHOOSE k \in S : TRUE IN f[k] + SumOver(f, S \ {k})

\* the sequences over S of length 0..n
SeqsUpTo(S, n) == UNION {[1..k -> S] : k \in 0..n}

-----------------------------------------------------------------------------
(* dataset.py: the data model *)

RoutePoint(lat, lon) ==
    [latitude |-> lat, longitude |-> lon, timestamp |-> None, metadata |-> None]

Route(route_id, points, start_point, end_point, difficulty, region, metadata) ==
    [route_id |-> route_id, points |-> points, start_point |-> start_point,
     end_point |-> end_point, difficulty |-> difficulty, region |-> region,
     metadata |-> metadata]

\* RouteDataset.__init__: a new object holding the list it was given.
\* Object identity: the new object gets an id no live dataset in `live` has.
RouteDataset(routes, live) ==
    [obj |-> CHOOSE n \in 0..Cardinality(live) : n \notin live, routes |-> routes]

\* RouteDataset.__len__
len(self) == Len(self.routes)

\* getitem with the bug "a negative index is out of bounds"
getitem_NoNegative(self, idx) ==
    IF 0 <= idx /\ idx < Len(self.routes)
        THEN [self |-> self, ret |-> [raised |-> None, value |-> self.routes[idx + 1]]]
    ELSE [self |-> self, ret |-> [raised |-> <<"IndexError">>, value |-> None]]

\* RouteDataset.__getitem__: Python list indexing, positions counted from 0,
\* a negative idx counted from the end, IndexError outside -len..len-1.
getitem(self, idx) ==
    LET n == Len(self.routes) IN
    IF 0 <= idx /\ idx < n
        THEN [self |-> self, ret |-> [raised |-> None, value |-> self.routes[idx + 1]]]
    ELSE IF -n <= idx /\ idx < 0
        THEN [self |-> self, ret |-> [raised |-> None, value |-> self.routes[n + idx + 1]]]
    ELSE [self |-> self, ret |-> [raised |-> <<"IndexError">>, value |-> None]]

\* filter_by_difficulty with the comparison negated
filter_by_difficulty_Negated(self, difficulty) ==
    LET filtered_routes == SelectSeq(self.routes, LAMBDA route : route.difficulty # difficulty)
    IN [self |-> self, ret |-> RouteDataset(filtered_routes, {self.obj})]

\* filter_by_difficulty filtering self.routes in place and returning self
filter_by_difficulty_InPlace(self, difficulty) ==
    LET filtered_routes == SelectSeq(self.routes, LAMBDA route : route.difficulty = difficulty)
        narrowed == [self EXCEPT !.routes = filtered_routes]
    IN [self |-> narrowed, ret |-> narrowed]

\* RouteDataset.filter_by_difficulty
filter_by_difficulty(self, difficulty) ==
    LET filtered_routes == SelectSeq(self.routes, LAMBDA route : route.difficulty = difficulty)
    IN [self |-> self, ret |-> RouteDataset(filtered_routes, {self.obj})]

\* filter_by_region collecting the matches in reverse order
filter_by_region_Reversed(self, region) ==
    LET matches == SelectSeq(self.routes, LAMBDA route : route.region = region)
        filtered_routes == [k \in DOMAIN matches |-> matches[Len(matches) + 1 - k]]
    IN [self |-> self, ret |-> RouteDataset(filtered_routes, {self.obj})]

\* RouteDataset.filter_by_region
filter_by_region(self, region) ==
    LET filtered_routes == SelectSeq(self.routes, LAMBDA route : route.region = region)
    IN [self |-> self, ret |-> RouteDataset(filtered_routes, {self.obj})]

\* get_statistics counting in the set of distinct values instead of the list
get_statistics_DistinctCount(self) ==
    LET difficulties == {self.routes[i].difficulty : i \in DOMAIN self.routes}
        regions == {self.routes[i].region : i \in DOMAIN self.routes}
    IN [self |-> self,
        ret |-> [total_routes |-> Len(self.routes),
                 difficulty_distribution |-> [diff \in difficulties |-> 1],
                 region_distribution |-> [region \in regions |-> 1]]]

\* RouteDataset.get_statistics
get_statistics(self) ==
    LET difficulties == [i \in DOMAIN self.routes |-> self.routes[i].difficulty]
        regions == [i \in DOMAIN self.routes |-> self.routes[i].region]
    IN [self |-> self,
        ret |-> [total_routes |-> Len(self.routes),
                 difficulty_distribution |->
                     [diff \in Range(difficulties) |-> Count(difficulties, diff)],
                 region_distribution |->
                     [region \in Range(regions) |-> Count(regions, region)]]]

-----------------------------------------------------------------------------
(* dataset.py: load_dataset *)

\* range(10) in load_dataset
NumSampleRoutes == 10

\* the format f"{i:02d}"
Fmt02d(i) == IF i < 10 THEN "0" \o ToString(i) ELSE ToString(i)

\* f"{i:03d}"
Fmt03d(i) ==
    IF i < 10 THEN "00" \o ToString(i)
    ELSE IF i < 100 THEN "0" \o ToString(i)
    ELSE ToString(i)

DifficultyCycle == <<"easy", "medium", "hard">>

\* the route load_dataset builds in iteration i of its loop
SampleRoute(i) ==
    LET start_point == RoutePoint(407128 + i * 100, -740060 + i * 100)
        end_point == RoutePoint(407228 + i * 100, -740160 + i * 100)
    IN Route("route_" \o Fmt03d(i), <<start_point, end_point>>, start_point, end_point,
             DifficultyCycle[(i % 3) + 1], "New York", <<[sample |-> TRUE]>>)

\* load_dataset(dataset_name, data_path): both arguments are only logged/ignored;
\* sample_routes is a fresh local list on every call.
load_dataset(dataset_name, data_path) ==
    LET sample_routes == [k \in 1..NumSampleRoutes |-> SampleRoute(k - 1)]
    IN RouteDataset(sample_routes, {})

-----------------------------------------------------------------------------
(* models.py *)

\* LLMModel.__init__ (BaseModel.__init__ sets model_name; _initialize_client only logs)
LLMModel(model_name, api_key, kwargs) ==
    [class |-> "LLMModel", model_name |-> model_name, api_key |-> api_key,
     config |-> kwargs, _client |-> None]

\* HumanBaselineModel.__init__
HumanBaselineModel ==
    [class |-> "HumanBaselineModel", model_name |-> "human_baseline"]

\* d.get(k) on a dict: the value, or None
GetOpt(d, k) == IF k \in DOMAIN d THEN <<d[k]>> ELSE None

\* LLMModel.prepare_input: the fixed template with the four coordinates it embeds
LLMModel_prepare_input(self, route_data) ==
    LET start_point == Get(route_data, "start_point", EmptyDict)
        end_point == Get(route_data, "end_point", EmptyDict)
    IN [self |-> self, arg |-> route_data,
        ret |-> [template |-> "reverse route prompt",
                 start |-> <<GetOpt(start_point, "latitude"), GetOpt(start_point, "longitude")>>,
                 end |-> <<GetOpt(end_point, "latitude"), GetOpt(end_point, "longitude")>>]]

\* HumanBaselineModel.prepare_input
HumanBaselineModel_prepare_input(self, route_data) ==
    [self |-> self, arg |-> route_data, ret |-> "Human annotation task description"]

\* LLMModel.predict lowering its confidence when the input has no start point
LLMModel_predict_UsesInput(self, route_data) ==
    [self |-> self, arg |-> route_data,
     ret |-> [predicted_route |-> "Sample prediction",
              confidence |-> IF "start_point" \in DOMAIN route_data THEN 850 ELSE 0,
              reasoning |-> "This is a placeholder reasoning",
              intermediate_points |-> <<>>]]

\* LLMModel.predict
LLMModel_predict(self, route_data) ==
    LET prompt == LLMModel_prepare_input(self, route_data)
        prediction == [predicted_route |-> "Sample prediction",
                       confidence |-> 850,
                       reasoning |-> "This is a placeholder reasoning",
                       intermediate_points |-> <<>>]
    IN [self |-> prompt.self, arg |-> prompt.arg, ret |-> prediction]

\* HumanBaselineModel.predict
HumanBaselineModel_predict(self, route_data) ==
    [self |-> self, arg |-> route_data,
     ret |-> [predicted_route |-> "Human baseline prediction",
              confidence |-> 900,
              reasoning |-> "Human expert analysis",
              intermediate_points |-> <<>>]]

\* model.predict(route_data), dispatched on the model's class
predict(self, route_data) ==
    IF self.class = "LLMModel" THEN LLMModel_predict(self, route_data)
    ELSE HumanBaselineModel_predict(self, route_data)

-----------------------------------------------------------------------------
(* evaluation.py *)

\* RouteEvaluator.__init__
RouteEvaluator(config) ==
    [config |-> config,
     metrics |-> <<"accuracy", "spatial_accuracy", "semantic_similarity",
                   "route_deviation", "landmark_recognition">>]

\* RouteEvaluator._route_to_dict
route_to_dict(route) ==
    [route_id |-> route.route_id,
     start_point |-> [latitude |-> route.start_point.latitude,
                      longitude |-> route.start_point.longitude],
     end_point |-> [latitude |-> route.end_point.latitude,
                    longitude |-> route.end_point.longitude],
     difficulty |-> route.difficulty,
     region |-> route.region,
     points |-> [i \in DOMAIN route.points |->
                    [latitude |-> route.points[i].latitude,
                     longitude |-> route.points[i].longitude]]]

\* the placeholder metrics, in thousandths
compute_accuracy(preds, truths) == 750
compute_spatial_accuracy(preds, truths) == 680
compute_route_deviation(preds, truths) == 2500
compute_semantic_similarity(preds, truths) == 720

\* list.index(x): 0-based position of the first occurrence
IndexOf(s, x) == (CHOOSE i \in DOMAIN s : s[i] = x /\ \A j \in 1..(i - 1) : s[j] # x) - 1

\* the loop body taking the 1-based position of the difficulty
by_difficulty_entry_OneBased(ds, difficulties, difficulty) ==
    LET filtered_dataset == filter_by_difficulty(ds, difficulty).ret
    IN [self |-> ds,
        ret |-> IF Len(filtered_dataset.routes) > 0
                THEN [accuracy |-> 800 - 150 * (IndexOf(difficulties, difficulty) + 1),
                      count |-> Len(filtered_dataset.routes)]
                ELSE [accuracy |-> 0, count |-> 0]]

\* the loop body without the empty-bucket branch
by_difficulty_entry_NoEmptyBranch(ds, difficulties, difficulty) ==
    LET filtered_dataset == filter_by_difficulty(ds, difficulty).ret
    IN [self |-> ds,
        ret |-> [accuracy |-> 800 - 150 * IndexOf(difficulties, difficulty),
                 count |-> Len(filtered_dataset.routes)]]

\* one iteration of the loop of _compute_by_difficulty
by_difficulty_entry(ds, difficulties, difficulty) ==
    The({LET filtered_dataset == call.ret
         IN [self |-> call.self,
             ret |-> IF len(filtered_dataset) > 0
                     THEN [accuracy |-> 800 - 150 * IndexOf(difficulties, difficulty),
                           count |-> len(filtered_dataset)]
                     ELSE [accuracy |-> 0, count |-> 0]]
         : call \in {filter_by_difficulty(ds, difficulty)}})

\* RouteEvaluator._compute_by_difficulty: the loop over easy, medium, hard, from
\* position k on; `acc` is by_difficulty so far.  Returns the dataset after the
\* calls made on it and the finished mapping.
RECURSIVE by_difficulty_loop(_, _, _, _)
by_difficulty_loop(ds, difficulties, k, acc) ==
    IF k > Len(difficulties) THEN [self |-> ds, ret |-> acc]
    ELSE The({by_difficulty_loop(e.self, difficulties, k + 1,
                                 Put(acc, difficulties[k], e.ret))
              : e \in {by_difficulty_entry(ds, difficulties, difficulties[k])}})

compute_by_difficulty(m, ds, preds, truths) ==
    by_difficulty_loop(ds, <<"easy", "medium", "hard">>, 1, EmptyDict)

\* round(x, 3) of a value given in units of 1e-5: nearest thousandth, ties to even
Round3(x5) ==
    LET q == x5 \div 100
        r == x5 % 100
    IN IF r < 50 THEN q
       ELSE IF r > 50 THEN q + 1
       ELSE IF q % 2 = 0 THEN q ELSE q + 1

Max(a, b) == IF a >= b THEN a ELSE b

\* the overall score without the max(0, ...) around the normalised deviation
compute_overall_score_NoClamp(metrics) ==
    LET route_dev_norm4 == 10000 - Get(metrics, "route_deviation", 5000)
        score5 == 10 * (3 * Get(metrics, "accuracy", 0)
                        + 3 * Get(metrics, "spatial_accuracy", 0)
                        + 2 * Get(metrics, "semantic_similarity", 0))
                  + 2 * route_dev_norm4
    IN Round3(score5)

\* the overall score with the route deviation not inverted (dev/10 instead of 1 - dev/10)
compute_overall_score_NotInverted(metrics) ==
    LET route_dev_norm4 == Get(metrics, "route_deviation", 5000)
        score5 == 10 * (3 * Get(metrics, "accuracy", 0)
                        + 3 * Get(metrics, "spatial_accuracy", 0)
                        + 2 * Get(metrics, "semantic_similarity", 0))
                  + 2 * route_dev_norm4
    IN Round3(score5)

\* RouteEvaluator._compute_overall_score.  Metrics are thousandths, weights are
\* tenths; route_dev_norm = max(0, 1 - dev/10) is kept in units of 1e-4 and the
\* weighted sum in units of 1e-5, so no precision is lost before round(score, 3).
compute_overall_score(metrics) ==
    LET route_dev_norm4 == Max(0, 10000 - Get(metrics, "route_deviation", 5000))
        score5 == 10 * (3 * Get(metrics, "accuracy", 0)
                        + 3 * Get(metrics, "spatial_accuracy", 0)
                        + 2 * Get(metrics, "semantic_similarity", 0))
                  + 2 * route_dev_norm4
    IN Round3(score5)

\* evaluate(), from "# Compute metrics" to its return: the metrics dict after the
\* five assignments, then overall_score
evaluate_metrics(m, ds, preds, truths) ==
    LET m1 == Put(EmptyDict, "accuracy", compute_accuracy(preds, truths))
        m2 == Put(m1, "spatial_accuracy", compute_spatial_accuracy(preds, truths))
        m3 == Put(m2, "route_deviation", compute_route_deviation(preds, truths))
        m4 == Put(m3, "semantic_similarity", compute_semantic_similarity(preds, truths))
    IN The({The({[dataset |-> bd.self, metrics |-> m5,
                  overall_score |-> compute_overall_score(m5)]
                 : m5 \in {Put(m4, "by_difficulty", bd.ret)}})
            : bd \in {compute_by_difficulty(m, ds, preds, truths)}})

\* evaluate() naming the model by its class
evaluate_init_ClassName(m, ds) ==
    [model_name |-> m.class, dataset_size |-> len(ds), metrics |-> EmptyDict]

\* evaluate(): the `results` dict it starts from
evaluate_init(m, ds) ==
    [model_name |-> m.model_name, dataset_size |-> len(ds), metrics |-> EmptyDict]

\* the loop walking the routes from the last to the first
loop_route_Reversed(ds, k) == ds.routes[Len(ds.routes) + 1 - k]

\* the route of the k-th iteration (k = 1, 2, ...) of `for route in dataset.routes`
loop_route(ds, k) == ds.routes[k]

\* a metric averaged over the predictions: divides by their number
evaluate_raises_DivByCount(m, ds, preds, truths) ==
    IF Len(preds) = 0 THEN <<"ZeroDivisionError">> ELSE None

\* the exception raised by evaluate() after its loop: none.  The metric functions
\* return literals, _compute_by_difficulty only filters and counts, and
\* _compute_overall_score reads the metrics with .get defaults; nothing divides
\* by a count or indexes a list.
evaluate_raises(m, ds, preds, truths) == None

\* evaluate(): the `results` dict it returns, from the dict it started with and
\* the outcome of evaluate_metrics
evaluate_result(res, e) ==
    [model_name |-> res.model_name, dataset_size |-> res.dataset_size,
     metrics |-> e.metrics, overall_score |-> e.overall_score]

\* the prediction loop of evaluate() from iteration k on; st holds the model and
\* the lists built so far
RECURSIVE evaluate_loop(_, _, _)
evaluate_loop(ds, k, st) ==
    IF k > Len(ds.routes) THEN st
    ELSE LET route == loop_route(ds, k)
             route_data == route_to_dict(route)
             call == predict(st.model, route_data)
         IN evaluate_loop(ds, k + 1,
                [model |-> call.self,
                 predictions |-> Append(st.predictions, call.ret),
                 ground_truths |-> Append(st.ground_truths, route),
                 log |-> Append(st.log, route_data)])

\* RouteEvaluator.evaluate as one call
evaluate(self, m, ds) ==
    LET res == evaluate_init(m, ds)
        st == evaluate_loop(ds, 1, [model |-> m, predictions |-> <<>>,
                                    ground_truths |-> <<>>, log |-> <<>>])
        raised == evaluate_raises(st.model, ds, st.predictions, st.ground_truths)
        e == evaluate_metrics(st.model, ds, st.predictions, st.ground_truths)
    IN [self |-> self, model |-> st.model, log |-> st.log,
        dataset |-> IF raised = None THEN e.dataset ELSE ds,
        raised |-> raised,
        ret |-> IF raised = None THEN evaluate_result(res, e) ELSE None]

-----------------------------------------------------------------------------
(* benchmark.py *)

\* TurnBackBenchmark.__init__: config or {}, and an evaluator built from it
TurnBackBenchmark(config) ==
    LET cfg == IF config = None \/ config = EmptyDict THEN EmptyDict ELSE config
    IN [config |-> cfg, evaluator |-> RouteEvaluator(cfg)]

\* TurnBackBenchmark.evaluate returning the metrics mapping instead of the result
TurnBackBenchmark_evaluate_ReturnsMetrics(self, res) ==
    [self |-> self, logged |-> Get(res, "accuracy", 0), ret |-> res.metrics]

\* TurnBackBenchmark.evaluate after self.evaluator.evaluate returned `res`: logs
\* results.get('accuracy', 0) and returns the result
TurnBackBenchmark_evaluate(self, res) ==
    [self |-> self, logged |-> Get(res, "accuracy", 0), ret |-> res]

-----------------------------------------------------------------------------
(* Inputs enumerated by the model *)

RouteIds == {"r1", "r2"}
Difficulties == {"easy", "medium", "hard", "expert"}

\* r1 is a two-point New York route whose start/end are its first/last point; r2 is
\* a Boston route storing start/end points that are not on its point sequence
\* (the redundancy is never validated).
RegionOf(route_id) == IF route_id = "r1" THEN "New York" ELSE "Boston"

Regions == {RegionOf(id) : id \in RouteIds}

Geometry(route_id) ==
    IF route_id = "r1"
    THEN [points |-> <<RoutePoint(400000, -740000), RoutePoint(410000, -730000)>>,
          start_point |-> RoutePoint(400000, -740000),
          end_point |-> RoutePoint(410000, -730000)]
    ELSE [points |-> <<RoutePoint(400000, -740000), RoutePoint(405000, -735000),
                       RoutePoint(410000, -730000)>>,
          start_point |-> RoutePoint(420000, -720000),
          end_point |-> RoutePoint(400000, -740000)]

Routes ==
    {Route(id, Geometry(id).points, Geometry(id).start_point, Geometry(id).end_point,
           d, RegionOf(id), None) : id \in RouteIds, d \in Difficulties}

\* the three-route dataset of the end-to-end scenario: difficulties easy, medium, hard
ScenarioRoutes ==
    [k \in 1..3 |->
        Route("r1", Geometry("r1").points, Geometry("r1").start_point,
              Geometry("r1").end_point, DifficultyCycle[k], "New York", None)]

\* the datasets a behaviour can start from: every route list up to MaxLen, the
\* scenario dataset, and the dataset load_dataset returns
InitialRouteLists ==
    SeqsUpTo(Routes, MaxLen) \cup {ScenarioRoutes, load_dataset("turnback_routes", None).routes}

DatasetNames == {"turnback_routes", "test_dataset"}
DataPaths == {None, <<"data/">>}

\* arguments tried for the filters: present and absent values
DifficultyArgs == Difficulties \cup {"Easy"}
RegionArgs == Regions \cup {"Test Region"}

\* the models evaluated
Models ==
    {LLMModel("gpt-4", None, EmptyDict),
     LLMModel("test-model", <<"sk-test">>, [temperature |-> 0]),
     HumanBaselineModel}

\* route_data arguments tried on predict(): flattened routes, and mappings with
\* missing keys
RouteDataArgs ==
    {route_to_dict(SampleRoute(0)),
     route_to_dict(CHOOSE r \in Routes : r.route_id = "r2" /\ r.difficulty = "hard"),
     EmptyDict,
     [route_id |-> "test"],
     [route_id |-> "test", start_point |-> [latitude |-> 400000],
      end_point |-> EmptyDict]}

\* configurations a benchmark is constructed with
Configs == {EmptyDict, [test_param |-> "test_value"]}

\* indices tried on a dataset of length n
IndexArgs(n) == (-(n + 2))..(n + 1)

-----------------------------------------------------------------------------
(* State machine *)

NoRet == [op |-> "none"]

\* no result dict exists
NoResultObj == [cur |-> {}, held |-> {}]

\* the command-line process has not been started
NoCli == [pc |-> "none"]

Init ==
    /\ dataset \in {[obj |-> 0, routes |-> rs] : rs \in InitialRouteLists}
    /\ ret = NoRet
    /\ pc = "idle"
    /\ evaluator = RouteEvaluator(EmptyDict)
    /\ model = None
    /\ results = None
    /\ predictions = <<>>
    /\ ground_truths = <<>>
    /\ predictLog = <<>>
    /\ benchmark = None
    /\ resultObj = NoResultObj
    /\ cli = NoCli

\* a call other than evaluate(): evaluate's locals of an earlier call are gone
Idle == pc \in {"idle", "done", "raised"}

ResetEval ==
    /\ pc' = "idle"
    /\ model' = None
    /\ results' = None
    /\ predictions' = <<>>
    /\ ground_truths' = <<>>
    /\ predictLog' = <<>>
    /\ benchmark' = None
    /\ resultObj' = NoResultObj
    /\ cli' = cli

\* len(D)
CallLen ==
    /\ Idle
    /\ ret' = [op |-> "len", value |-> len(dataset)]
    /\ ResetEval
    /\ UNCHANGED <<dataset, evaluator>>

\* D[idx]
CallGetItem ==
    /\ Idle
    /\ \E idx \in IndexArgs(Len(dataset.routes)) :
          LET call == getitem(dataset, idx) IN
          /\ dataset' = call.self
          /\ ret' = [op |-> "getitem", idx |-> idx, raised |-> call.ret.raised,
                     value |-> call.ret.value]
    /\ ResetEval
    /\ UNCHANGED evaluator

\* D.filter_by_difficulty(v)
CallFilterByDifficulty ==
    /\ Idle
    /\ \E v \in DifficultyArgs :
          LET call == filter_by_difficulty(dataset, v) IN
          /\ dataset' = call.self
          /\ ret' = [op |-> "filter_by_difficulty", arg |-> v, value |-> call.ret]
    /\ ResetEval
    /\ UNCHANGED evaluator

\* D.filter_by_region(v)
CallFilterByRegion ==
    /\ Idle
    /\ \E v \in RegionArgs :
          LET call == filter_by_region(dataset, v) IN
          /\ dataset' = call.self
          /\ ret' = [op |-> "filter_by_region", arg |-> v, value |-> call.ret]
    /\ ResetEval
    /\ UNCHANGED evaluator

\* D.get_statistics()
CallGetStatistics ==
    /\ Idle
    /\ LET call == get_statistics(dataset) IN
          /\ dataset' = call.self
          /\ ret' = [op |-> "get_statistics", value |-> call.ret]
    /\ ResetEval
    /\ UNCHANGED evaluator

\* the number of load_dataset() calls that ended with the last completed call
LoadsInARow == IF ret.op = "load_dataset" THEN ret.call ELSE 0

\* load_dataset(name, data_path)
CallLoadDataset ==
    /\ Idle
    /\ LoadsInARow < MaxCalls
    /\ \E name \in DatasetNames, path \in DataPaths :
          ret' = [op |-> "load_dataset", name |-> name, data_path |-> path,
                  call |-> LoadsInARow + 1, value |-> load_dataset(name, path)]
    /\ ResetEval
    /\ UNCHANGED <<dataset, evaluator>>

\* model.predict(route_data), called directly
CallPredict ==
    /\ Idle
    /\ \E m \in Models, rd \in RouteDataArgs :
          LET call == predict(m, rd) IN
          ret' = [op |-> "predict", model |-> m, arg |-> rd, value |-> call.ret,
                  model_after |-> call.self, arg_after |-> call.arg]
    /\ ResetEval
    /\ UNCHANGED <<dataset, evaluator>>

\* one dict kept and reused by every call
NewObj_Reused(live) == 0

\* a new dict: an identity none of the dicts in `live` has
NewObj(live) == CHOOSE n \in 0..Cardinality(live) : n \notin live

\* evaluator.evaluate(m, D), directly or through benchmark.evaluate(m, D): entry,
\* up to the loop.  The caller may still hold the result of the call before.
EvalBegin ==
    /\ Idle
    /\ \E m \in Models :
          /\ model' = m
          /\ results' = evaluate_init(m, dataset)
    /\ \E b \in {None} \cup {TurnBackBenchmark(c) : c \in Configs} : benchmark' = b
    /\ LET held == IF pc = "done" THEN resultObj.cur ELSE {}
       IN resultObj' = [cur |-> {NewObj(held)}, held |-> held]
    /\ predictions' = <<>>
    /\ ground_truths' = <<>>
    /\ predictLog' = <<>>
    /\ pc' = "loop"
    /\ ret' = [op |-> "evaluate", returned |-> FALSE]
    /\ UNCHANGED <<dataset, evaluator, cli>>

\* one iteration of `for route in dataset.routes`
EvalPredict ==
    /\ pc = "loop"
    /\ Len(predictions) < Len(dataset.routes)
    /\ LET route == loop_route(dataset, Len(predictions) + 1)
           route_data == route_to_dict(route)
           call == predict(model, route_data)
       IN /\ model' = call.self
          /\ predictions' = Append(predictions, call.ret)
          /\ ground_truths' = Append(ground_truths, route)
          /\ predictLog' = Append(predictLog, route_data)
    /\ UNCHANGED <<dataset, ret, pc, evaluator, results, benchmark, resultObj, cli>>

\* the loop is exhausted: compute the metrics and the overall score, return results
\* (to the caller, or to benchmark.evaluate)
EvalFinish ==
    /\ pc = "loop"
    /\ Len(predictions) = Len(dataset.routes)
    /\ \E e \in {evaluate_metrics(model, dataset, predictions, ground_truths)} :
       \E final \in {evaluate_result(results, e)} :
       LET raised == evaluate_raises(model, dataset, predictions, ground_truths)
       IN IF raised # None
          THEN /\ pc' = "raised"
               /\ ret' = [op |-> "evaluate", returned |-> FALSE, raised |-> raised]
               /\ UNCHANGED <<dataset, results>>
          ELSE /\ dataset' = e.dataset
               /\ results' = final
               /\ IF benchmark = None
                  THEN /\ pc' = "done"
                       /\ ret' = [op |-> "evaluate", returned |-> TRUE, value |-> final]
                  ELSE /\ pc' = "bench"
                       /\ ret' = ret
    /\ UNCHANGED <<evaluator, model, predictions, ground_truths, predictLog,
                   benchmark, resultObj, cli>>

\* benchmark.evaluate: self.evaluator.evaluate has returned; log and return
BenchReturn ==
    /\ pc = "bench"
    /\ LET call == TurnBackBenchmark_evaluate(benchmark, results)
       IN /\ benchmark' = call.self
          /\ ret' = [op |-> "evaluate", returned |-> TRUE, value |-> call.ret]
    /\ pc' = "done"
    /\ UNCHANGED <<dataset, evaluator, model, results, predictions, ground_truths,
                   predictLog, resultObj, cli>>

Next ==
    \/ CallLen
    \/ CallGetItem
    \/ CallFilterByDifficulty
    \/ CallFilterByRegion
    \/ CallGetStatistics
    \/ CallLoadDataset
    \/ CallPredict
    \/ EvalBegin
    \/ EvalPredict
    \/ EvalFinish
    \/ BenchReturn

Spec == Init /\ [][Next]_vars

\* evaluate() is a synchronous loop: once entered, it keeps running
\* (each of its steps moves pc or extends predictions)
evalVars == <<pc, predictions>>

\* a caller that only loads datasets and evaluates them
EvalNext ==
    \/ CallLoadDataset
    \/ EvalBegin
    \/ EvalPredict
    \/ EvalFinish
    \/ BenchReturn

FairSpec ==
    /\ Init
    /\ [][EvalNext]_vars
    /\ WF_evalVars(EvalPredict)
    /\ WF_evalVars(EvalFinish)
    /\ WF_evalVars(BenchReturn)

-----------------------------------------------------------------------------
(* Properties of RouteEvaluator.evaluate *)

Returned == pc = "done" /\ ret.op = "evaluate" /\ ret.returned

\* the four base metrics of a result, as the placeholder constants (thousandths)
BaseMetricsAreConstants(res) ==
    /\ res.metrics["accuracy"] = 750
    /\ res.metrics["spatial_accuracy"] = 680
    /\ res.metrics["route_deviation"] = 2500
    /\ res.metrics["semantic_similarity"] = 720

\* C1: evaluate on any non-empty dataset, with either model variant and whatever
\* the routes hold, returns overall_score 0.723 and the base metrics
\* accuracy 0.75, spatial_accuracy 0.68, route_deviation 2.5, semantic_similarity 0.72.
C1_OverallScoreConstant ==
    (Returned /\ len(dataset) > 0) =>
        /\ ret.value.overall_score = 723
        /\ BaseMetricsAreConstants(ret.value)

C1_Witness ==
    /\ Returned
    /\ len(dataset) = MaxLen
    /\ model.class = "LLMModel"
    /\ \E i \in DOMAIN dataset.routes : dataset.routes[i].difficulty = "expert"
    /\ ret.value.overall_score = 723

\* number of routes of D whose difficulty is d, counted on D itself
NumWithDifficulty(ds, d) ==
    Cardinality({i \in DOMAIN ds.routes : ds.routes[i].difficulty = d})

BucketAccuracy == [easy |-> 800, medium |-> 650, hard |-> 500]

\* C2: by_difficulty has exactly the keys easy, medium, hard; each count is the
\* number of routes of that difficulty, each accuracy is 0.80 / 0.65 / 0.50 when
\* the count is positive and 0.0 when it is 0; the three-route dataset
\* [easy, medium, hard] gives a count of 1 in every bucket.
C2_ByDifficulty ==
    Returned =>
        LET bd == ret.value.metrics["by_difficulty"] IN
        /\ DOMAIN bd = {"easy", "medium", "hard"}
        /\ \A d \in DOMAIN bd :
              /\ DOMAIN bd[d] = {"accuracy", "count"}
              /\ bd[d].count = NumWithDifficulty(dataset, d)
              /\ bd[d].accuracy = IF bd[d].count > 0 THEN BucketAccuracy[d] ELSE 0
        /\ dataset.routes = ScenarioRoutes =>
              bd = [easy |-> [accuracy |-> 800, count |-> 1],
                    medium |-> [accuracy |-> 650, count |-> 1],
                    hard |-> [accuracy |-> 500, count |-> 1]]

C2_Witness ==
    /\ Returned
    /\ dataset.routes = ScenarioRoutes
    /\ model.class = "HumanBaselineModel"
    /\ ret.value.metrics["by_difficulty"]["hard"] = [accuracy |-> 500, count |-> 1]

\* C3: evaluate on the empty dataset raises nothing and returns dataset_size 0,
\* {accuracy 0.0, count 0} in all three buckets, the usual base metrics and
\* overall_score 0.723, and model.predict is never called.
C3_EmptyDataset ==
    /\ (pc = "loop" /\ len(dataset) = 0) => ENABLED EvalFinish
    /\ (Returned /\ len(dataset) = 0) =>
          /\ ret.value.dataset_size = 0
          /\ ret.value.metrics["by_difficulty"] =
                [d \in {"easy", "medium", "hard"} |-> [accuracy |-> 0, count |-> 0]]
          /\ BaseMetricsAreConstants(ret.value)
          /\ ret.value.overall_score = 723
          /\ predictLog = <<>>
          /\ predictions = <<>>

C3_Witness ==
    /\ Returned
    /\ dataset.routes = <<>>
    /\ ret.value.dataset_size = 0
    /\ predictLog = <<>>

-----------------------------------------------------------------------------
(* Properties of RouteDataset *)

IsFilterCall == ret.op \in {"filter_by_difficulty", "filter_by_region"}

\* the field a filter call compares
FilterKey(route) == IF ret.op = "filter_by_difficulty" THEN route.difficulty ELSE route.region

\* C4: a filter's result is no longer than D and holds only routes whose
\* difficulty (filter_by_difficulty) or region (filter_by_region) equals the value.
C4_FilterSound ==
    IsFilterCall =>
        /\ len(ret.value) <= len(dataset)
        /\ \A i \in DOMAIN ret.value.routes : FilterKey(ret.value.routes[i]) = ret.arg

C4_Witness ==
    /\ ret.op = "filter_by_difficulty"
    /\ len(ret.value) > 0
    /\ len(ret.value) < len(dataset)

\* positions of D whose route matches the filter call's value
MatchingPositions == {i \in DOMAIN dataset.routes : FilterKey(dataset.routes[i]) = ret.arg}

\* the k-th matching position of D, in D's order
KthMatch(k) ==
    CHOOSE i \in MatchingPositions :
        Cardinality({j \in MatchingPositions : j <= i}) = k

\* C5: a filter returns exactly the subsequence of matching routes: each matching
\* route as often as in D and in D's order; an empty collection, not an error,
\* when nothing matches.
C5_FilterExact ==
    IsFilterCall =>
        /\ len(ret.value) = Cardinality(MatchingPositions)
        /\ \A k \in DOMAIN ret.value.routes : ret.value.routes[k] = dataset.routes[KthMatch(k)]
        /\ \A r \in Range(dataset.routes) :
              Count(ret.value.routes, r) = IF FilterKey(r) = ret.arg
                                           THEN Count(dataset.routes, r) ELSE 0
        /\ MatchingPositions = {} => ret.value.routes = <<>>

C5_Witness ==
    /\ IsFilterCall
    /\ len(dataset) > len(ret.value)
    /\ len(ret.value) >= 2
    /\ ret.value.routes[1] # ret.value.routes[2]

C5_WitnessNoMatch ==
    /\ ret.op = "filter_by_difficulty"
    /\ len(dataset) > 0
    /\ ret.value.routes = <<>>

\* C6: filtering is non-destructive: a filter_by_difficulty, filter_by_region or
\* get_statistics call leaves D's route sequence as it was, and a filter call
\* returns a collection that is another object than D.
C6_NonDestructive ==
    [][(ret'.op \in {"filter_by_difficulty", "filter_by_region", "get_statistics"}) =>
          /\ dataset'.routes = dataset.routes
          /\ dataset'.obj = dataset.obj
          /\ (ret'.op # "get_statistics") => ret'.value.obj # dataset'.obj]_vars

C6_Witness ==
    /\ ret.op = "filter_by_region"
    /\ len(dataset) >= 2
    /\ ret.value.routes = dataset.routes
    /\ ret.value.obj # dataset.obj

\* C7: get_statistics reports total_routes = length, distributions whose values
\* sum to total_routes, and whose keys are exactly the distinct values present,
\* each counted at least once (also for the empty dataset and duplicate ids).
C7_Statistics ==
    ret.op = "get_statistics" =>
        LET st == ret.value
            dd == st.difficulty_distribution
            rd == st.region_distribution
        IN /\ st.total_routes = len(dataset)
           /\ SumOver(dd, DOMAIN dd) = st.total_routes
           /\ SumOver(rd, DOMAIN rd) = st.total_routes
           /\ DOMAIN dd = {dataset.routes[i].difficulty : i \in DOMAIN dataset.routes}
           /\ DOMAIN rd = {dataset.routes[i].region : i \in DOMAIN dataset.routes}
           /\ \A d \in DOMAIN dd : dd[d] >= 1
           /\ \A g \in DOMAIN rd : rd[g] >= 1

C7_Witness ==
    /\ ret.op = "get_statistics"
    /\ \E i, j \in DOMAIN dataset.routes :
          i # j /\ dataset.routes[i].route_id = dataset.routes[j].route_id
    /\ \E d \in DOMAIN ret.value.difficulty_distribution :
          ret.value.difficulty_distribution[d] >= 2

\* C8 as claimed: get(index) returns the route at position index when
\* 0 <= index < length() and fails with an index error for every other index,
\* every negative index included.
C8_Claimed ==
    ret.op = "getitem" =>
        IF 0 <= ret.idx /\ ret.idx < len(dataset)
        THEN ret.raised = None /\ ret.value = dataset.routes[ret.idx + 1]
        ELSE ret.raised = <<"IndexError">>

\* C8 as amended: get(index) returns the route at position index when
\* 0 <= index < length(), the route at position length() + index when
\* -length() <= index < 0, and fails with an index error exactly when
\* index < -length() or index >= length().
C8_GetItem ==
    ret.op = "getitem" =>
        LET n == len(dataset) IN
        /\ (0 <= ret.idx /\ ret.idx < n) =>
              ret.raised = None /\ ret.value = dataset.routes[ret.idx + 1]
        /\ (-n <= ret.idx /\ ret.idx < 0) =>
              ret.raised = None /\ ret.value = dataset.routes[n + ret.idx + 1]
        /\ (ret.idx < -n \/ ret.idx >= n) <=> ret.raised = <<"IndexError">>

C8_Witness ==
    /\ ret.op = "getitem"
    /\ ret.idx = -1
    /\ len(dataset) >= 2
    /\ ret.raised = None
    /\ ret.value = dataset.routes[len(dataset)]
    /\ ret.value # dataset.routes[1]

-----------------------------------------------------------------------------
(* Properties of load_dataset and of the model stubs *)

SampleIds ==
    <<"route_000", "route_001", "route_002", "route_003", "route_004",
      "route_005", "route_006", "route_007", "route_008", "route_009">>

\* C9: every load_dataset call, whatever its name and data_path and however many
\* calls came before, returns the same 10 routes: route i has id route_00i,
\* difficulty [easy, medium, hard][i mod 3], region New York and exactly the two
\* points start_point, end_point; the call changes nothing else.
C9_LoadDataset ==
    /\ [](ret.op = "load_dataset" =>
            LET rs == ret.value.routes IN
            /\ Len(rs) = 10
            /\ \A i \in 0..9 :
                  LET r == rs[i + 1] IN
                  /\ r.route_id = SampleIds[i + 1]
                  /\ r.difficulty = <<"easy", "medium", "hard">>[(i % 3) + 1]
                  /\ r.region = "New York"
                  /\ r.points = <<r.start_point, r.end_point>>
                  /\ r.start_point.latitude = 407128 + 100 * i
                  /\ r.start_point.longitude = -740060 + 100 * i
                  /\ r.end_point.latitude = 407228 + 100 * i
                  /\ r.end_point.longitude = -740160 + 100 * i
                  /\ r.metadata = <<[sample |-> TRUE]>>)
    /\ [][ret'.op = "load_dataset" => (dataset' = dataset /\ evaluator' = evaluator)]_vars

C9_Witness ==
    /\ ret.op = "load_dataset"
    /\ ret.call = 2
    /\ ret.name = "test_dataset"
    /\ ret.data_path # None
    /\ Len(ret.value.routes) = 10
    /\ ret.value.routes[10].route_id = "route_009"

\* C10: predict is deterministic and input-independent: LLMModel returns
\* 'Sample prediction' / 0.85 / no intermediate points and HumanBaselineModel
\* 'Human baseline prediction' / 0.90 for every route_data (missing keys
\* included), and the call changes neither the model nor its input.
C10_PredictConstant ==
    ret.op = "predict" =>
        /\ ret.model.class = "LLMModel" =>
              /\ ret.value.predicted_route = "Sample prediction"
              /\ ret.value.confidence = 850
              /\ ret.value.intermediate_points = <<>>
        /\ ret.model.class = "HumanBaselineModel" =>
              /\ ret.value.predicted_route = "Human baseline prediction"
              /\ ret.value.confidence = 900
        /\ \A rd \in RouteDataArgs : predict(ret.model, rd).ret = ret.value
        /\ ret.model_after = ret.model
        /\ ret.arg_after = ret.arg

C10_Witness ==
    /\ ret.op = "predict"
    /\ ret.model.class = "LLMModel"
    /\ ret.arg = EmptyDict
    /\ ret.value.confidence = 850
    /\ ret.model_after.model_name = "gpt-4"

-----------------------------------------------------------------------------
(* _compute_overall_score on its own: the metrics mappings a caller can pass *)

\* values of accuracy, spatial_accuracy and semantic_similarity, in thousandths:
\* the placeholder constants, the ends of [0, 1], values that do not round to a
\* thousandth of the score evenly, and values outside [0, 1]
AccuracyValues == {0, 5, 333, 680, 720, 750, 1000, 1500, -250}

\* values of route_deviation, in thousandths (of a kilometre)
DeviationValues == {0, 2500, 5000, 9995, 10000, 15000, -5000}

\* a key that is absent (None) or present with one of the values
Optional(S) == {None} \cup {<<v>> : v \in S}

PutOptional(d, k, o) == IF o = None THEN d ELSE Put(d, k, o[1])

MetricsMapping(a, s, m, d) ==
    PutOptional(PutOptional(PutOptional(PutOptional(EmptyDict,
        "accuracy", a), "spatial_accuracy", s), "semantic_similarity", m),
        "route_deviation", d)

\* results["metrics"] holds a mapping; overall_score is not yet assigned
ScoreInit ==
    /\ \E a \in Optional(AccuracyValues), s \in Optional(AccuracyValues),
          m \in Optional(AccuracyValues), d \in Optional(DeviationValues) :
          results = [metrics |-> MetricsMapping(a, s, m, d)]
    /\ pc = "score"
    /\ dataset = [obj |-> 0, routes |-> <<>>]
    /\ ret = NoRet
    /\ evaluator = RouteEvaluator(EmptyDict)
    /\ model = None
    /\ predictions = <<>>
    /\ ground_truths = <<>>
    /\ predictLog = <<>>
    /\ benchmark = None
    /\ resultObj = NoResultObj
    /\ cli = NoCli

\* results["overall_score"] = self._compute_overall_score(results["metrics"])
ScoreCompute ==
    /\ pc = "score"
    /\ results' = Put(results, "overall_score", compute_overall_score(results.metrics))
    /\ pc' = "scored"
    /\ UNCHANGED <<dataset, ret, evaluator, model, predictions, ground_truths,
                   predictLog, benchmark, resultObj, cli>>

ScoreNext == ScoreCompute

SpecScore == ScoreInit /\ [][ScoreNext]_vars

\* the value a key of the mapping counts as
Counted(mt, k, default) == IF k \in DOMAIN mt THEN mt[k] ELSE default

\* the weighted sum of C17, in units of 1e-5
WeightedSum5(mt) ==
    LET dev == Counted(mt, "route_deviation", 5000)
        inv == IF dev < 10000 THEN 10000 - dev ELSE 0
    IN 30 * Counted(mt, "accuracy", 0) + 30 * Counted(mt, "spatial_accuracy", 0)
       + 20 * Counted(mt, "semantic_similarity", 0) + 2 * inv

\* the overall score is the weighted sum rounded to a thousandth
IsRounded(score, sum5) == 100 * score - sum5 \in -50..50

\* every metric present is in its range: the three accuracies in [0, 1], the
\* route deviation not negative
MetricsInRange(mt) ==
    /\ \A k \in DOMAIN mt \cap {"accuracy", "spatial_accuracy", "semantic_similarity"} :
          mt[k] \in 0..1000
    /\ "route_deviation" \in DOMAIN mt => mt["route_deviation"] >= 0

\* C17 as claimed: the overall score is the rounded weighted sum, with missing
\* keys counted as 0 (deviation: 5), and lies in [0, 1] for every metrics mapping.
C17_Claimed ==
    pc = "scored" =>
        /\ IsRounded(results.overall_score, WeightedSum5(results.metrics))
        /\ results.overall_score \in 0..1000

\* C17 as amended: the overall score is the rounded weighted sum, with missing
\* keys counted as 0 (deviation: 5); it lies in [0, 1] whenever every accuracy
\* present is in [0, 1] and the deviation, if present, is not negative, and it is
\* not clamped otherwise.
C17_OverallScore ==
    pc = "scored" =>
        /\ IsRounded(results.overall_score, WeightedSum5(results.metrics))
        /\ MetricsInRange(results.metrics) => results.overall_score \in 0..1000
        /\ results.metrics = EmptyDict => results.overall_score = 100
        /\ (/\ DOMAIN results.metrics = {"accuracy", "route_deviation"}
            /\ results.metrics["accuracy"] = 1500
            /\ results.metrics["route_deviation"] = -5000)
           => results.overall_score = 750

C17_Witness ==
    /\ pc = "scored"
    /\ DOMAIN results.metrics = {"accuracy", "route_deviation"}
    /\ results.metrics["accuracy"] = 5
    /\ results.metrics["route_deviation"] = 15000
    /\ results.overall_score \in {1, 2}

-----------------------------------------------------------------------------
(* cli.py and scripts/evaluate.py: one run of the command-line process *)

\* truthiness of an Optional[str]: `if args.difficulty:`, `if args.region:`,
\* `if args.output:` are false for None and for the empty string
Truthy_NotNone(v) == v # None

Truthy(v) == v # None /\ v # <<"">>

\* the sub-commands of cli.py
Commands == {"evaluate", "info"}

\* choices=["easy", "medium", "hard"] of --difficulty
DifficultyChoices == {"easy", "medium", "hard"}

\* argparse: the command line is rejected (usage message, exit status 2)
usage_error(entry, argv) ==
    \/ entry = "cli" /\ argv.command # None /\ argv.command[1] \notin Commands
    \/ /\ entry = "script" \/ argv.command = <<"evaluate">>
       /\ \/ argv.model = None
          \/ argv.difficulty # None /\ argv.difficulty[1] \notin DifficultyChoices

\* parse_args(): the namespace, with the defaults of the options not given
parse_args(entry, argv) ==
    [command |-> argv.command,
     verbose |-> argv.verbose,
     model |-> argv.model,
     dataset |-> <<"turnback_routes">>,
     difficulty |-> argv.difficulty,
     region |-> argv.region,
     api_key |-> None,
     output |-> IF entry = "script" /\ argv.output = None
                THEN <<"results.json">> ELSE argv.output]

\* cmd_evaluate / initialize_model: the model named by --model
initialize_model(model_name, api_key) ==
    IF model_name = "human_baseline"
    THEN HumanBaselineModel
    ELSE LLMModel(model_name, api_key, EmptyDict)

\* the benchmark of the run: TurnBackBenchmark() in cli.py, TurnBackBenchmark(config)
\* with config = load_config(None) = {} in scripts/evaluate.py
cmd_benchmark(entry) == TurnBackBenchmark(IF entry = "cli" THEN None ELSE EmptyDict)

\* a run that saves the result file before it prints, whatever the entry point
cmd_order_WriteFirst(entry) ==
    <<"load", "filter_difficulty", "filter_region", "model", "evaluate", "write",
      "print", "return">>

\* the statements of cmd_evaluate (cli.py) and of main (scripts/evaluate.py), in
\* program order
cmd_order(entry) ==
    IF entry = "cli"
    THEN <<"load", "filter_difficulty", "filter_region", "model", "evaluate", "print",
           "write", "return">>
    ELSE <<"load", "filter_difficulty", "filter_region", "model", "evaluate", "write",
           "print", "return">>

\* the statement after `step`
after(entry, step) == cmd_order(entry)[IndexOf(cmd_order(entry), step) + 2]

\* open(path, 'w'): the exception it raises, None if the file is opened
open_w(path, writable) ==
    IF path # "" /\ writable THEN None ELSE <<"OSError">>

\* what the print statements after the evaluation show
print_results(entry, args, res) ==
    IF entry = "cli"
    THEN [kind |-> "results", model |-> args.model[1],
          overall_score |-> res.overall_score, dataset_size |-> res.dataset_size,
          metrics |-> [k \in DOMAIN res.metrics \ {"by_difficulty"} |-> res.metrics[k]]]
    ELSE [kind |-> "summary", model |-> args.model[1],
          overall_score |-> res.overall_score, saved |-> args.output[1]]

\* the handler of main() exiting 0
main_except_Swallow(verbose) == [exit |-> 0, traceback |-> FALSE]

\* main(), `except Exception`: the error is logged; with --verbose it is raised
\* again and ends the interpreter with a traceback and exit status 1, otherwise
\* sys.exit(1)
main_except(verbose) == [exit |-> 1, traceback |-> verbose]

Argvs(entry) ==
    {[command |-> c, verbose |-> v, model |-> None, difficulty |-> None,
      region |-> None, output |-> None]
        : c \in IF entry = "cli" THEN {None, <<"info">>, <<"run">>} ELSE {},
          v \in BOOLEAN}
    \cup
    {[command |-> IF entry = "cli" THEN <<"evaluate">> ELSE None,
      verbose |-> v, model |-> m, difficulty |-> d, region |-> r, output |-> o]
        : v \in BOOLEAN,
          m \in Optional({"human_baseline", "gpt-4"}),
          d \in Optional({"easy", "expert"}),
          r \in Optional({"", "New York", "Boston"}),
          o \in Optional({"", "out.json"})}

\* a process about to run main(): its command line and whether the output path
\* can be opened for writing
CliStart(entry, argv, writable) ==
    [pc |-> "main", entry |-> entry, argv |-> argv, writable |-> writable,
     args |-> None, loaded |-> None, dataset |-> None, model |-> None,
     benchmark |-> None, results |-> None, stdout |-> <<>>, file |-> None,
     raised |-> None, exit |-> None, traceback |-> FALSE, steps |-> <<>>]

CliInit ==
    /\ \E entry \in {"cli", "script"}, writable \in BOOLEAN :
          \E argv \in Argvs(entry) : cli = CliStart(entry, argv, writable)
    /\ dataset = [obj |-> 0, routes |-> <<>>]
    /\ ret = NoRet
    /\ pc = "idle"
    /\ evaluator = RouteEvaluator(EmptyDict)
    /\ model = None
    /\ results = None
    /\ predictions = <<>>
    /\ ground_truths = <<>>
    /\ predictLog = <<>>
    /\ benchmark = None
    /\ resultObj = NoResultObj

\* the process state is all in `cli`
CliOnly ==
    UNCHANGED <<dataset, ret, pc, evaluator, model, results, predictions,
                ground_truths, predictLog, benchmark, resultObj>>

\* the process ends
Exit(c, code, traceback) ==
    [c EXCEPT !.pc = "exited", !.exit = <<code>>, !.traceback = traceback]

\* an exception leaves cmd_evaluate: to the handler of main() in cli.py, out of
\* the interpreter in scripts/evaluate.py (which has no handler)
Raise(c, exc) ==
    IF c.entry = "cli"
    THEN [c EXCEPT !.pc = "except", !.raised = exc]
    ELSE Exit([c EXCEPT !.raised = exc], 1, TRUE)

\* the statement `step` is done
Advance(c, step) ==
    LET n == after(c.entry, step)
    IN IF n = "return"
       THEN Exit([c EXCEPT !.steps = Append(@, step)], 0, FALSE)
       ELSE [c EXCEPT !.pc = n, !.steps = Append(@, step)]

\* the statement `step` is skipped (its `if` is false)
Skip(c, step) ==
    LET n == after(c.entry, step)
    IN IF n = "return" THEN Exit(c, 0, FALSE) ELSE [c EXCEPT !.pc = n]

\* main(): parse_args, then no command / dispatch
MainParse ==
    /\ cli.pc = "main"
    /\ cli' = IF usage_error(cli.entry, cli.argv)
              THEN Exit(cli, 2, FALSE)
              ELSE LET args == parse_args(cli.entry, cli.argv)
                       c == [cli EXCEPT !.args = args]
                   IN IF cli.entry = "cli" /\ args.command = None
                      THEN Exit([c EXCEPT !.stdout = Append(@, [kind |-> "help"])], 1, FALSE)
                      ELSE IF args.command = <<"info">>
                      THEN [c EXCEPT !.pc = "info"]
                      ELSE [c EXCEPT !.pc = cmd_order(cli.entry)[1]]
    /\ CliOnly

\* cmd_info
CmdInfo ==
    /\ cli.pc = "info"
    /\ LET loaded == load_dataset(cli.args.dataset[1], None)
           stats == get_statistics(loaded)
       IN cli' = Exit([cli EXCEPT !.loaded = <<loaded>>, !.dataset = <<stats.self>>,
                                  !.stdout = Append(@, [kind |-> "info",
                                                        stats |-> stats.ret]),
                                  !.steps = <<"info">>],
                      0, FALSE)
    /\ CliOnly

\* dataset = load_dataset(args.dataset)
CmdLoad ==
    /\ cli.pc = "load"
    /\ LET loaded == load_dataset(cli.args.dataset[1], None)
       IN cli' = Advance([cli EXCEPT !.loaded = <<loaded>>, !.dataset = <<loaded>>],
                         "load")
    /\ CliOnly

\* if args.difficulty: dataset = dataset.filter_by_difficulty(args.difficulty)
CmdFilterDifficulty ==
    /\ cli.pc = "filter_difficulty"
    /\ cli' = IF Truthy(cli.args.difficulty)
              THEN Advance([cli EXCEPT !.dataset =
                               <<filter_by_difficulty(cli.dataset[1],
                                                      cli.args.difficulty[1]).ret>>],
                           "filter_difficulty")
              ELSE Skip(cli, "filter_difficulty")
    /\ CliOnly

\* if args.region: dataset = dataset.filter_by_region(args.region)
CmdFilterRegion ==
    /\ cli.pc = "filter_region"
    /\ cli' = IF Truthy(cli.args.region)
              THEN Advance([cli EXCEPT !.dataset =
                               <<filter_by_region(cli.dataset[1], cli.args.region[1]).ret>>],
                           "filter_region")
              ELSE Skip(cli, "filter_region")
    /\ CliOnly

\* model construction
CmdModel ==
    /\ cli.pc = "model"
    /\ cli' = Advance([cli EXCEPT !.model =
                          <<initialize_model(cli.args.model[1], cli.args.api_key)>>],
                      "model")
    /\ CliOnly

\* benchmark = TurnBackBenchmark(...); results = benchmark.evaluate(model, dataset)
CmdEvaluate ==
    /\ cli.pc = "evaluate"
    /\ \E b \in {cmd_benchmark(cli.entry)} :
       \E e \in {evaluate(b.evaluator, cli.model[1], cli.dataset[1])} :
       \E call \in {TurnBackBenchmark_evaluate(b, e.ret)} :
          cli' = IF e.raised # None
                 THEN Raise([cli EXCEPT !.steps = Append(@, "evaluate")], e.raised)
                 ELSE Advance([cli EXCEPT !.benchmark = <<call.self>>,
                                          !.model = <<e.model>>,
                                          !.dataset = <<e.dataset>>,
                                          !.results = <<call.ret>>],
                              "evaluate")
    /\ CliOnly

\* the print statements
CmdPrint ==
    /\ cli.pc = "print"
    /\ cli' = Advance([cli EXCEPT !.stdout =
                          Append(@, print_results(cli.entry, cli.args, cli.results[1]))],
                      "print")
    /\ CliOnly

\* with open(args.output, 'w') as f: json.dump(results, f, indent=2)
\* (cli.py: only `if args.output:`, and followed by a "Results saved" line)
CmdWrite ==
    /\ cli.pc = "write"
    /\ cli' = IF cli.entry = "cli" /\ ~Truthy(cli.args.output)
              THEN Skip(cli, "write")
              ELSE LET exc == open_w(cli.args.output[1], cli.writable)
                       tried == [cli EXCEPT !.steps = Append(@, "write")]
                   IN IF exc # None
                      THEN Raise(tried, exc)
                      ELSE LET c == [cli EXCEPT
                                       !.file = <<[path |-> cli.args.output[1],
                                                   content |-> cli.results[1]]>>,
                                       !.stdout = IF cli.entry = "cli"
                                                  THEN Append(@, [kind |-> "saved",
                                                                  path |-> cli.args.output[1]])
                                                  ELSE @]
                           IN Advance(c, "write")
    /\ CliOnly

\* main(): except Exception as e
MainExcept ==
    /\ cli.pc = "except"
    /\ LET h == main_except(cli.args.verbose)
       IN cli' = Exit(cli, h.exit, h.traceback)
    /\ CliOnly

CliNext ==
    \/ MainParse
    \/ CmdInfo
    \/ CmdLoad
    \/ CmdFilterDifficulty
    \/ CmdFilterRegion
    \/ CmdModel
    \/ CmdEvaluate
    \/ CmdPrint
    \/ CmdWrite
    \/ MainExcept

SpecCLI == CliInit /\ [][CliNext]_vars

-----------------------------------------------------------------------------
(* Properties of the benchmark facade and of evaluate's result and run *)

\* C11: benchmark.evaluate(model, dataset) returns exactly what its evaluator's
\* evaluate(model, dataset) returned, whatever the benchmark's configuration, and
\* the benchmark is left as constructed.
C11_BenchmarkDelegates ==
    (Returned /\ benchmark # None) =>
        /\ ret.value = results
        /\ \A c \in Configs :
              ret.value = evaluate(TurnBackBenchmark(c).evaluator, model, dataset).ret
        /\ ret.value = evaluate(evaluator, model, dataset).ret
        /\ benchmark = TurnBackBenchmark(benchmark.config)

C11_Witness ==
    /\ Returned
    /\ benchmark # None
    /\ benchmark.config = [test_param |-> "test_value"]
    /\ len(dataset) > 0
    /\ ret.value.dataset_size = len(dataset)

\* C12: every result has the keys model_name, dataset_size, metrics, overall_score;
\* model_name is the model's name ('human_baseline' for HumanBaselineModel, the
\* constructor argument for LLMModel), dataset_size the number of routes, and
\* metrics has exactly the keys accuracy, spatial_accuracy, semantic_similarity,
\* route_deviation, by_difficulty.
C12_ResultFormat ==
    Returned =>
        /\ DOMAIN ret.value = {"model_name", "dataset_size", "metrics", "overall_score"}
        /\ ret.value.model_name = model.model_name
        /\ model.class = "HumanBaselineModel" => ret.value.model_name = "human_baseline"
        /\ model.class = "LLMModel" =>
              \E m \in Models : m.class = "LLMModel" /\ m = model
                                /\ ret.value.model_name \in {"gpt-4", "test-model"}
        /\ ret.value.dataset_size = Len(dataset.routes)
        /\ DOMAIN ret.value.metrics =
              {"accuracy", "spatial_accuracy", "semantic_similarity", "route_deviation",
               "by_difficulty"}

C12_Witness ==
    /\ Returned
    /\ benchmark = None
    /\ model.class = "LLMModel"
    /\ ret.value.model_name = "test-model"
    /\ ret.value.dataset_size = 1

\* the flattened mapping of a route, field by field
IsFlattened(rd, route) ==
    /\ DOMAIN rd = {"route_id", "start_point", "end_point", "difficulty", "region", "points"}
    /\ rd.route_id = route.route_id
    /\ rd.difficulty = route.difficulty
    /\ rd.region = route.region
    /\ rd.start_point = [latitude |-> route.start_point.latitude,
                         longitude |-> route.start_point.longitude]
    /\ rd.end_point = [latitude |-> route.end_point.latitude,
                       longitude |-> route.end_point.longitude]
    /\ Len(rd.points) = Len(route.points)
    /\ \A j \in DOMAIN route.points :
          rd.points[j] = [latitude |-> route.points[j].latitude,
                          longitude |-> route.points[j].longitude]

\* C14: during evaluate, predict is called once per route, in dataset order, with
\* the flattened mapping of that route, and before any metric is computed; at the
\* end predictions and ground_truths are parallel, as long as dataset_size, and
\* their k-th entries belong to the k-th route.
C14_PredictOrder ==
    (pc \in {"loop", "bench", "done"}) =>
        LET k == Len(predictLog) IN
        /\ Len(predictions) = k
        /\ Len(ground_truths) = k
        /\ k <= Len(dataset.routes)
        /\ \A i \in 1..k :
              /\ IsFlattened(predictLog[i], dataset.routes[i])
              /\ ground_truths[i] = dataset.routes[i]
              /\ predictions[i] = predict(model, predictLog[i]).ret
        /\ pc = "loop" => (results.metrics = EmptyDict /\ "overall_score" \notin DOMAIN results)
        /\ pc # "loop" =>
              /\ k = Len(dataset.routes)
              /\ k = results.dataset_size
              /\ "accuracy" \in DOMAIN results.metrics

C14_Witness ==
    /\ Returned
    /\ Len(predictLog) = NumSampleRoutes
    /\ predictLog[1].route_id = "route_000"
    /\ predictLog[NumSampleRoutes].route_id = "route_009"
    /\ ground_truths = dataset.routes

\* C15: evaluate() calls share no mutable state: every step of a call leaves the
\* evaluator, the dataset and (once passed in) the model and the benchmark as they
\* were; the result dict of a call is another object than the result the caller
\* holds from the call before; and the result is determined by the arguments.
C15_NoSharedState ==
    /\ [][(pc' \in {"loop", "bench", "done"}) =>
            /\ evaluator' = evaluator
            /\ dataset' = dataset
            /\ (pc \in {"loop", "bench"}) => (model' = model /\ benchmark' = benchmark)]_vars
    /\ [](pc \in {"loop", "bench", "done"} =>
            /\ evaluator = RouteEvaluator(EmptyDict)
            /\ model \in Models
            /\ resultObj.cur # {}
            /\ resultObj.cur \cap resultObj.held = {})
    /\ [](Returned => ret.value = evaluate(evaluator, model, dataset).ret)

C15_Witness ==
    /\ Returned
    /\ resultObj.held # {}
    /\ resultObj.cur # resultObj.held
    /\ len(dataset) > 0

\* C16: evaluate always terminates and returns a result without raising, for any
\* dataset length, duplicate route_ids, any difficulty and region strings, routes
\* whose start/end points are not on their point sequence, and either model.
C16_Terminates ==
    /\ [](pc # "raised")
    /\ (pc = "loop") ~> (pc = "done")

C16_Witness ==
    /\ Returned
    /\ len(dataset) = 2
    /\ dataset.routes[1].route_id = dataset.routes[2].route_id
    /\ dataset.routes[1].difficulty = "expert"
    /\ dataset.routes[1].start_point # dataset.routes[1].points[1]
    /\ model.class = "LLMModel"

\* the sum of the three bucket counts of a result
BucketCountSum(res) ==
    LET bd == res.metrics["by_difficulty"]
    IN bd["easy"].count + bd["medium"].count + bd["hard"].count

-----------------------------------------------------------------------------
(* Properties of the command-line process *)

\* the run printed evaluation results
ResultsPrinted(c) == \E i \in DOMAIN c.stdout : c.stdout[i].kind \in {"results", "summary"}

\* the run ended in an error: a non-zero exit status or a traceback
EndedInError(c) == c.pc = "exited" /\ (c.exit # <<0>> \/ c.traceback)

\* C13 as claimed: the cli.py process exits with code 1 when the dispatched
\* command raised, with code 0 in every other case, and with --verbose the
\* exception is re-raised.
C13_Claimed ==
    (cli.entry = "cli" /\ cli.pc = "exited") =>
        /\ cli.raised # None => cli.exit = <<1>>
        /\ cli.raised = None => cli.exit = <<0>>
        /\ (cli.raised # None /\ cli.argv.verbose) => cli.traceback

\* C13 as amended: the cli.py process exits with code 2 when the argument parser
\* rejects the command line, with code 1 when no sub-command is given (help is
\* printed, nothing is dispatched), with code 1 when the dispatched command raised
\* (re-raised with a traceback exactly when --verbose is set), and with code 0
\* when the dispatched command returned.
C13_ExitCodes ==
    (cli.entry = "cli" /\ cli.pc = "exited") =>
        /\ cli.exit \in {<<0>>, <<1>>, <<2>>}
        /\ cli.exit = <<2>> <=> cli.args = None
        /\ cli.exit = <<2>> =>
              \/ cli.argv.command \notin {None, <<"evaluate">>, <<"info">>}
              \/ cli.argv.command = <<"evaluate">>
                 /\ (cli.argv.model = None \/ cli.argv.difficulty = <<"expert">>)
        /\ (cli.args # None /\ cli.argv.command = None) =>
              /\ cli.exit = <<1>>
              /\ cli.raised = None
              /\ cli.steps = <<>>
              /\ cli.stdout = <<[kind |-> "help"]>>
        /\ cli.raised # None =>
              /\ cli.exit = <<1>>
              /\ cli.traceback = cli.argv.verbose
        /\ (cli.args # None /\ cli.argv.command # None /\ cli.raised = None) =>
              /\ cli.exit = <<0>>
              /\ ~cli.traceback
              /\ cli.steps # <<>>

C13_Witness ==
    /\ cli.entry = "cli"
    /\ cli.pc = "exited"
    /\ cli.raised = <<"OSError">>
    /\ cli.argv.verbose
    /\ cli.traceback
    /\ cli.exit = <<1>>

\* position of a step in the order C18 gives
ClaimedPosition(step) ==
    CASE step = "load" -> 1
      [] step = "filter_difficulty" -> 2
      [] step = "filter_region" -> 3
      [] step = "model" -> 4
      [] step = "evaluate" -> 5
      [] step = "print" -> 6
      [] step = "write" -> 7
      [] OTHER -> 0

\* position of a step in the order of the entry point: scripts/evaluate.py writes
\* the file before it prints
ActualPosition(entry, step) ==
    IF entry = "script" /\ step = "print" THEN 7
    ELSE IF entry = "script" /\ step = "write" THEN 6
    ELSE ClaimedPosition(step)

\* C18 as claimed: an evaluate run does load, filter by difficulty, filter by
\* region, model construction, evaluation, printing and writing in that order,
\* each at most once, and a run that ends in an error has produced neither printed
\* results nor a result file.
C18_Claimed ==
    /\ \A i, j \in DOMAIN cli.steps :
          i < j => ClaimedPosition(cli.steps[i]) < ClaimedPosition(cli.steps[j])
    /\ EndedInError(cli) => (~ResultsPrinted(cli) /\ cli.file = None)

\* C18 as amended: the steps run in program order, each at most once: in cli.py
\* printing comes before writing (done only for a non-empty --output), in
\* scripts/evaluate.py writing (always done, default results.json) comes before
\* printing.  A run that ends in an error has produced no result file; it has
\* printed results exactly when it is a cli.py run whose output file could not be
\* opened.  A run that evaluated and ended without error has printed its results.
C18_StepsAndOutputs ==
    /\ \A i, j \in DOMAIN cli.steps :
          i < j => ActualPosition(cli.entry, cli.steps[i])
                     < ActualPosition(cli.entry, cli.steps[j])
    /\ cli.file # None => (cli.results # None /\ cli.file[1].content = cli.results[1])
    /\ EndedInError(cli) =>
          /\ cli.file = None
          /\ ResultsPrinted(cli) <=>
                /\ cli.entry = "cli"
                /\ cli.raised = <<"OSError">>
                /\ cli.steps[Len(cli.steps)] = "write"
                /\ cli.argv.output \notin {None, <<"">>}
    /\ (cli.pc = "exited" /\ ~EndedInError(cli) /\ cli.results # None) =>
          /\ ResultsPrinted(cli)
          /\ cli.file # None <=> (cli.entry = "script" \/ cli.argv.output \notin {None, <<"">>})

C18_Witness ==
    /\ cli.entry = "cli"
    /\ EndedInError(cli)
    /\ ~cli.argv.verbose
    /\ cli.exit = <<1>>
    /\ ResultsPrinted(cli)
    /\ cli.file = None
    /\ cli.steps = <<"load", "filter_difficulty", "filter_region", "model", "evaluate",
                     "print", "write">>

\* the routes of a list that have the given difficulty / region (None: any)
Matching(routes, d, r) ==
    {i \in DOMAIN routes : /\ d # None => routes[i].difficulty = d[1]
                           /\ r # None => routes[i].region = r[1]}

\* the two filters commute on D and each is idempotent
FiltersCommute(D, d, r) ==
    LET byD == filter_by_difficulty(D, d).ret
        byR == filter_by_region(D, r).ret
    IN /\ filter_by_region(byD, r).ret.routes = filter_by_difficulty(byR, d).ret.routes
       /\ filter_by_difficulty(byD, d).ret.routes = byD.routes
       /\ filter_by_region(byR, r).ret.routes = byR.routes

\* the datasets and filter arguments the algebra of the filters is checked on:
\* the dataset the run loaded and every route list of the tests
FilterCases ==
    {<<D, d, r>> : D \in {cli.loaded[1]} \cup {[obj |-> 0, routes |-> rs] : rs \in InitialRouteLists},
                   d \in DifficultyArgs, r \in {cli.argv.region[1]}}

\* C20 as claimed: the filters commute and are idempotent, and the dataset_size
\* the run reports is the number of loaded routes matching both --difficulty and
\* --region.
C20_Claimed ==
    cli.results # None =>
        cli.results[1].dataset_size =
            Cardinality(Matching(cli.loaded[1].routes, cli.argv.difficulty, cli.argv.region))

\* C20 as amended: the filters commute and are idempotent, and the dataset_size
\* the run reports is the number of loaded routes matching --difficulty, if given,
\* and --region, if given and not the empty string (an empty --region filters
\* nothing).
C20_FiltersCommute ==
    /\ (cli.pc = "model" /\ cli.argv.region # None) =>
          \A t \in FilterCases : FiltersCommute(t[1], t[2], t[3])
    /\ cli.results # None =>
          LET r == IF cli.argv.region = <<"">> THEN None ELSE cli.argv.region
              n == Cardinality(Matching(cli.loaded[1].routes, cli.argv.difficulty, r))
          IN /\ cli.results[1].dataset_size = n
             /\ Len(cli.dataset[1].routes) = n
             /\ \A i \in DOMAIN cli.stdout :
                   cli.stdout[i].kind = "results" => cli.stdout[i].dataset_size = n

C20_Witness ==
    /\ cli.pc = "exited"
    /\ cli.argv.difficulty = <<"easy">>
    /\ cli.argv.region = <<"New York">>
    /\ cli.results # None
    /\ cli.steps[2] = "filter_difficulty"
    /\ cli.steps[3] = "filter_region"
    /\ cli.results[1].dataset_size = 4

=============================================================================
